---- MODULE Spec2Model ----
(***************************************************************************)
(* Model of ssync.py: the three commands analyze, compare and sync, which  *)
(* communicate only through text files (manifest listings and the diff).   *)
(* A text file is a sequence of lines, a line a sequence of characters.    *)
(***************************************************************************)
EXTENDS Integers, Sequences, FiniteSets, TLC

\* ------------------------------------------------------------------ bounds
MaxLines == 2       \* data lines per well-formed manifest listing
MaxRawLines == 2    \* lines per free-form manifest listing
MaxPipeLines == 2   \* data lines per listing in the compare-then-sync runs
MaxDiffLines == 3   \* lines of a hand-written diff given to sync
MaxFiles == 3       \* files met by the directory walk of analyze

\* ------------------------------------------------------- python str helpers
IsSpace(c) == c \in {" ", "\t"}

RECURSIVE LStrip(_)
LStrip(s) ==
    IF s = <<>> THEN s
    ELSE IF IsSpace(Head(s)) THEN LStrip(Tail(s)) ELSE s

RECURSIVE RStrip(_)
RStrip(s) ==
    IF s = <<>> THEN s
    ELSE IF IsSpace(s[Len(s)]) THEN RStrip(SubSeq(s, 1, Len(s) - 1)) ELSE s

\* str.strip()
Strip(s) == RStrip(LStrip(s))

\* index of the first whitespace character of s, Len(s)+1 when there is none
FirstSpace(s) ==
    IF \E i \in 1..Len(s) : IsSpace(s[i])
    THEN CHOOSE i \in 1..Len(s) :
            IsSpace(s[i]) /\ \A j \in 1..(i - 1) : ~IsSpace(s[j])
    ELSE Len(s) + 1

\* str.split(maxsplit=n): split on runs of whitespace, at most n splits, the
\* rest of the string (leading whitespace removed) being the last field;
\* n = -1 is split() without a limit.
RECURSIVE Split(_, _)
Split(s, n) ==
    LET t == LStrip(s) IN
    IF t = <<>> THEN <<>>
    ELSE IF n = 0 THEN <<t>>
    ELSE LET k == FirstSpace(t) IN
         <<SubSeq(t, 1, k - 1)>> \o Split(SubSeq(t, k, Len(t)), n - 1)

\* str.split(' ', 1): split once at the first single space character
SplitSep1(s) ==
    IF \E i \in 1..Len(s) : s[i] = " "
    THEN LET k == CHOOSE i \in 1..Len(s) :
                     s[i] = " " /\ \A j \in 1..(i - 1) : s[j] # " "
         IN <<SubSeq(s, 1, k - 1), SubSeq(s, k + 1, Len(s))>>
    ELSE <<s>>

\* ------------------------------------------------------------ text constants
FILENAME == <<"f", "i", "l", "e", "n", "a", "m", "e">>
MD5 == <<"m", "d", "5">>
HeaderF == <<"#", " ">> \o FILENAME
HeaderMF == <<"#", " ">> \o MD5 \o <<" ">> \o FILENAME

\* python None / a present value
None == <<>>
Some(v) == <<v>>

\* ------------------------------------------------------------------- state
VARIABLES
    cmd,            \* the command that is running: analyze, compare, sync
    pc,             \* its position
    md5flag,        \* args.md5 of analyze
    walk,           \* the files os.walk yields, with the outcome of md5sum
    apos,           \* next file of the walk
    out,            \* the manifest file analyze writes
    origin,         \* text of the origin manifest file
    remote,         \* text of the remote manifest file
    pos,            \* next line of the file being read
    columns,        \* col_reader's column list
    row,            \* the dict col_reader yielded last
    origin_files,   \* dict filename -> md5 (or None)
    remote_files,   \* set of filenames
    modified_files, \* set of filenames
    diff,           \* text of the diff file
    flags,          \* args.origin_remove, remote_copy, modified_download
    actions         \* what sync printed, one element per copy/remove

vars == <<cmd, pc, md5flag, walk, apos, out, origin, remote, pos, columns, row,
          origin_files, remote_files, modified_files, diff, flags, actions>>

analyzeVars == <<md5flag, walk, apos, out>>
compareVars == <<origin, remote, pos, columns, row,
                 origin_files, remote_files, modified_files>>
syncVars == <<flags, actions>>

EmptyDict == [k \in {} |-> None]
NoFlags == [origin_remove |-> FALSE, remote_copy |-> FALSE,
            modified_download |-> FALSE]

BoundedSeq(S, n) == UNION {[1..k -> S] : k \in 0..n}

\* ------------------------------------------------------------- col_reader
Min(a, b) == IF a < b THEN a ELSE b

\* dict(zip(cols, fields)): pairs up to the shorter length, a repeated key
\* keeping its last value
ZipDict(cols, fields) ==
    LET m == Min(Len(cols), Len(fields)) IN
    [k \in {cols[i] : i \in 1..m} |->
        fields[CHOOSE i \in 1..m :
                  cols[i] = k /\ \A j \in (i + 1)..m : cols[j] # k]]

\* the fields a data line is cut into under the current column list
LineFields(line, cols) == Split(line, Len(cols))

\* the reader without its test for blank lines
IsBlankMut(line) == FALSE

\* nonempty_reader's test of a stripped line: `if not line: continue`
IsBlank(line) == line = <<>>

\* nonempty_reader + col_reader on one physical line:
\* what the line is, the column list after it, and the dict yielded
ReadLine(raw, cols) ==
    LET line == Strip(raw) IN
    IF IsBlank(line) THEN [kind |-> "blank", cols |-> cols, row |-> EmptyDict]
    ELSE IF Head(line) = "#"
    THEN [kind |-> "header", cols |-> Tail(Split(line, -1)), row |-> EmptyDict]
    ELSE [kind |-> "data", cols |-> cols,
          row |-> ZipDict(cols, LineFields(line, cols))]

\* line.get('md5', None)
GetMd5(r) == IF MD5 \in DOMAIN r THEN Some(r[MD5]) ELSE None

\* --------------------------------------------------------------- compare
\* one line of the origin manifest (lines 89-90)
OriginLine ==
    /\ cmd = "compare" /\ pc = "origin" /\ pos <= Len(origin)
    /\ LET r == ReadLine(origin[pos], columns) IN
       /\ pos' = pos + 1
       /\ columns' = r.cols
       /\ IF r.kind # "data"
          THEN UNCHANGED <<pc, row, origin_files>>
          ELSE /\ row' = r.row
               /\ IF FILENAME \notin DOMAIN r.row
                  THEN pc' = "failed" /\ UNCHANGED origin_files
                  ELSE /\ pc' = pc
                       /\ origin_files' =
                            [k \in DOMAIN origin_files \cup {r.row[FILENAME]} |->
                                IF k = r.row[FILENAME] THEN GetMd5(r.row)
                                ELSE origin_files[k]]
    /\ UNCHANGED <<cmd, origin, remote, remote_files, modified_files, diff>>
    /\ UNCHANGED <<analyzeVars, syncVars>>

\* end of the origin manifest: the remote manifest is opened (lines 92-96)
OriginEOF ==
    /\ cmd = "compare" /\ pc = "origin" /\ pos > Len(origin)
    /\ pc' = "remote"
    /\ pos' = 1
    /\ columns' = <<>>
    /\ remote_files' = {}
    /\ modified_files' = {}
    /\ UNCHANGED <<cmd, origin, remote, row, origin_files, diff>>
    /\ UNCHANGED <<analyzeVars, syncVars>>

\* the comparison made only when both sides carry a checksum
ChecksumDiffersMut(recorded, md5) ==
    recorded # None /\ md5 # None /\ recorded # md5

\* origin_files[filename] != md5 (line 103)
ChecksumDiffers(recorded, md5) == recorded # md5

\* one line of the remote manifest (lines 96-106)
RemoteLine ==
    /\ cmd = "compare" /\ pc = "remote" /\ pos <= Len(remote)
    /\ LET r == ReadLine(remote[pos], columns) IN
       /\ pos' = pos + 1
       /\ columns' = r.cols
       /\ IF r.kind # "data"
          THEN UNCHANGED <<pc, row, origin_files, remote_files, modified_files>>
          ELSE /\ row' = r.row
               /\ IF FILENAME \notin DOMAIN r.row
                  THEN /\ pc' = "failed"
                       /\ UNCHANGED <<origin_files, remote_files, modified_files>>
                  ELSE LET filename == r.row[FILENAME]
                           md5 == GetMd5(r.row)
                       IN
                       /\ pc' = pc
                       /\ IF filename \notin DOMAIN origin_files
                          THEN /\ remote_files' = remote_files \cup {filename}
                               /\ UNCHANGED <<origin_files, modified_files>>
                          ELSE /\ modified_files' =
                                    IF ChecksumDiffers(origin_files[filename], md5)
                                    THEN modified_files \cup {filename}
                                    ELSE modified_files
                               /\ origin_files' =
                                    [k \in DOMAIN origin_files \ {filename} |->
                                        origin_files[k]]
                               /\ UNCHANGED remote_files
    /\ UNCHANGED <<cmd, origin, remote, diff>>
    /\ UNCHANGED <<analyzeVars, syncVars>>

\* end of the remote manifest (line 108)
RemoteEOF ==
    /\ cmd = "compare" /\ pc = "remote" /\ pos > Len(remote)
    /\ pc' = "write"
    /\ UNCHANGED <<cmd, origin, remote, pos, columns, row,
                   origin_files, remote_files, modified_files, diff>>
    /\ UNCHANGED <<analyzeVars, syncVars>>

\* the sequences that list every element of the set S once: the orders in
\* which a python set can be iterated
Orders(S) ==
    {f \in [1..Cardinality(S) -> S] : \A i, j \in 1..Cardinality(S) :
                                          f[i] = f[j] => i = j}

\* 'O ' + fn, 'R ' + fn, 'M ' + fn (lines 113, 118, 123)
DiffLine(status, fn) == <<status, " ">> \o fn

\* one status group of the diff and the blank line print() adds after a
\* non-empty group (lines 112-120)
Group(status, order, blank) ==
    [i \in 1..Len(order) |-> DiffLine(status, order[i])]
    \o (IF blank /\ Len(order) > 0 THEN <<(<<>>)>> ELSE <<>>)

\* the diff file is written (lines 110-123)
WriteDiff ==
    /\ cmd = "compare" /\ pc = "write"
    /\ \E o \in Orders(DOMAIN origin_files), r \in Orders(remote_files),
          m \in Orders(modified_files) :
          diff' = Group("O", o, TRUE) \o Group("R", r, TRUE)
                  \o Group("M", m, FALSE)
    /\ pc' = "done"
    /\ UNCHANGED <<cmd, compareVars>>
    /\ UNCHANGED <<analyzeVars, syncVars>>

\* ------------------------------------------------------------------ sync
\* origin(fn), remote(fn): os.path.join(args.origin, fn) (lines 137-138)
OriginPath(fn) == [root |-> "origin", fn |-> fn]
RemotePath(fn) == [root |-> "remote", fn |-> fn]

\* what copyfile and removefile print (lines 126-131)
copyfile(src, dst) == [op |-> "copy", src |-> src, dst |-> dst]
removefile(filename) == [op |-> "remove", file |-> filename]

\* the chain with the R branch testing the flag of the O branch
SyncBranchMut(status, filename, fl) ==
    IF status = <<"O">>
    THEN IF fl.origin_remove
         THEN <<removefile(OriginPath(filename))>>
         ELSE <<copyfile(OriginPath(filename), RemotePath(filename))>>
    ELSE IF status = <<"R">>
    THEN IF fl.origin_remove
         THEN <<copyfile(RemotePath(filename), OriginPath(filename))>>
         ELSE <<removefile(RemotePath(filename))>>
    ELSE IF status = <<"M">>
    THEN IF fl.modified_download
         THEN <<copyfile(RemotePath(filename), OriginPath(filename))>>
         ELSE <<copyfile(OriginPath(filename), RemotePath(filename))>>
    ELSE <<>>

\* the if/elif chain of main_sync (lines 143-157): the actions printed for
\* one diff line, none when no branch is taken
SyncBranch(status, filename, fl) ==
    IF status = <<"O">>
    THEN IF fl.origin_remove
         THEN <<removefile(OriginPath(filename))>>
         ELSE <<copyfile(OriginPath(filename), RemotePath(filename))>>
    ELSE IF status = <<"R">>
    THEN IF fl.remote_copy
         THEN <<copyfile(RemotePath(filename), OriginPath(filename))>>
         ELSE <<removefile(RemotePath(filename))>>
    ELSE IF status = <<"M">>
    THEN IF fl.modified_download
         THEN <<copyfile(RemotePath(filename), OriginPath(filename))>>
         ELSE <<copyfile(OriginPath(filename), RemotePath(filename))>>
    ELSE <<>>

\* one line of the diff file (lines 141-157)
SyncLine ==
    /\ cmd = "sync" /\ pc = "read" /\ pos <= Len(diff)
    /\ pos' = pos + 1
    /\ LET line == Strip(diff[pos]) IN
       IF IsBlank(line)
       THEN UNCHANGED <<pc, actions>>
       ELSE LET parts == SplitSep1(line) IN
            IF Len(parts) # 2
            THEN pc' = "failed" /\ UNCHANGED actions
            ELSE /\ pc' = pc
                 /\ actions' = actions \o SyncBranch(parts[1], parts[2], flags)
    /\ UNCHANGED <<cmd, diff, flags>>
    /\ UNCHANGED <<analyzeVars, origin, remote, columns, row,
                   origin_files, remote_files, modified_files>>

\* end of the diff file
SyncEOF ==
    /\ cmd = "sync" /\ pc = "read" /\ pos > Len(diff)
    /\ pc' = "done"
    /\ UNCHANGED <<cmd, diff, pos, flags, actions>>
    /\ UNCHANGED <<analyzeVars, origin, remote, columns, row,
                   origin_files, remote_files, modified_files>>

Flags == [origin_remove : BOOLEAN, remote_copy : BOOLEAN,
          modified_download : BOOLEAN]

\* sync is run on the diff file a finished compare wrote
StartSync ==
    /\ cmd = "compare" /\ pc = "done"
    /\ cmd' = "sync"
    /\ pc' = "read"
    /\ pos' = 1
    /\ flags' \in Flags
    /\ actions' = <<>>
    /\ UNCHANGED <<diff, origin, remote, columns, row,
                   origin_files, remote_files, modified_files>>
    /\ UNCHANGED analyzeVars

\* --------------------------------------------------------------- analyze
\* os.path.join(path, fn) for the relative directory path (line 61)
JoinPath(path, fn) == IF path = <<>> THEN fn ELSE path \o <<"/">> \o fn

\* calc_md5 (lines 18-24): the checksum md5sum printed, None when md5sum
\* exits with an error
calc_md5(file) == file.sum

\* the manifest line of one file (lines 59-61)
ManifestLine(md5, path) ==
    IF md5 = None THEN path ELSE md5[1] \o <<" ">> \o path

\* the header is printed (lines 43-49)
AnalyzeHeader ==
    /\ cmd = "analyze" /\ pc = "header"
    /\ out' = <<IF md5flag THEN HeaderMF ELSE HeaderF>>
    /\ pc' = "walk"
    /\ UNCHANGED <<cmd, md5flag, walk, apos, diff>>
    /\ UNCHANGED <<compareVars, syncVars>>

\* the walk without the `continue` after a failed checksum
AnalyzeFileMut ==
    /\ cmd = "analyze" /\ pc = "walk" /\ apos <= Len(walk)
    /\ apos' = apos + 1
    /\ LET file == walk[apos]
           path == JoinPath(file.dir, file.fn)
       IN
       IF md5flag
       THEN out' = Append(out, ManifestLine(calc_md5(file), path))
       ELSE out' = Append(out, ManifestLine(None, path))
    /\ UNCHANGED <<cmd, pc, md5flag, walk, diff>>
    /\ UNCHANGED <<compareVars, syncVars>>

\* one file of the walk (lines 53-61)
AnalyzeFile ==
    /\ cmd = "analyze" /\ pc = "walk" /\ apos <= Len(walk)
    /\ apos' = apos + 1
    /\ LET file == walk[apos]
           path == JoinPath(file.dir, file.fn)
       IN
       IF md5flag
       THEN LET md5 == calc_md5(file) IN
            IF md5 = None
            THEN UNCHANGED out
            ELSE out' = Append(out, ManifestLine(md5, path))
       ELSE out' = Append(out, ManifestLine(None, path))
    /\ UNCHANGED <<cmd, pc, md5flag, walk, diff>>
    /\ UNCHANGED <<compareVars, syncVars>>

\* the walk is over
AnalyzeEOF ==
    /\ cmd = "analyze" /\ pc = "walk" /\ apos > Len(walk)
    /\ pc' = "done"
    /\ UNCHANGED <<cmd, md5flag, walk, apos, out, diff>>
    /\ UNCHANGED <<compareVars, syncVars>>

\* compare is run with the manifest analyze wrote as both of its inputs
StartCompare ==
    /\ cmd = "analyze" /\ pc = "done"
    /\ cmd' = "compare"
    /\ pc' = "origin"
    /\ origin' = out
    /\ remote' = out
    /\ pos' = 1
    /\ columns' = <<>>
    /\ origin_files' = EmptyDict
    /\ UNCHANGED <<row, remote_files, modified_files, diff>>
    /\ UNCHANGED <<analyzeVars, syncVars>>

\* ------------------------------------------------------------------ inputs
Sums == {<<"1">>, <<"2">>}
Paths == {<<"a">>, <<"b">>, <<"c">>}
SpacedPath == <<"a", " ", "b">>

\* well-formed listings: a header and lines of its shape
PathLines == {ManifestLine(None, p) : p \in Paths}
Md5Lines == {ManifestLine(Some(s), p) : s \in Sums, p \in Paths}
Listings(n) ==
    {<<HeaderF>> \o b : b \in BoundedSeq(PathLines, n)}
    \cup {<<HeaderMF>> \o b : b \in BoundedSeq(Md5Lines, n)}

\* free-form listings: with or without a header, blank lines, paths with
\* interior whitespace
RawLines == {<<"a">>, SpacedPath, ManifestLine(Some(<<"1">>), SpacedPath),
             <<" ">>}
RawListings(n) ==
    {h \o b : h \in {<<>>, <<HeaderF>>, <<HeaderMF>>},
              b \in BoundedSeq(RawLines, n)}

\* listings of the compare-then-sync runs
PipeLines == {ManifestLine(Some(<<"1">>), <<"a">>),
              ManifestLine(Some(<<"1">>), <<"b">>),
              ManifestLine(Some(<<"2">>), <<"b">>),
              ManifestLine(Some(<<"1">>), <<"#", "c">>)}
PipeListings(n) == {<<HeaderMF>> \o b : b \in BoundedSeq(PipeLines, n)}

\* diff lines written by hand: every status with two paths, an unknown
\* status, a status without a path, a blank line
DiffPaths == {<<"a">>, SpacedPath}
SyncLines ==
    {DiffLine(s, p) : s \in {"O", "R", "M"}, p \in DiffPaths}
    \cup {DiffLine("X", <<"a">>), <<"O">>, <<>>}

\* the files of the tree: relative directory, name, and what md5sum gives
TreePaths == {[dir |-> <<>>, fn |-> <<"a">>],
              [dir |-> <<>>, fn |-> SpacedPath],
              [dir |-> <<>>, fn |-> <<"#", "a">>],
              [dir |-> <<"d">>, fn |-> <<"a">>]}
TreeFiles == {[dir |-> t.dir, fn |-> t.fn, sum |-> s] :
                t \in TreePaths, s \in {None, Some(<<"1">>)}}
Walks ==
    {w \in BoundedSeq(TreeFiles, MaxFiles) :
        \A i, j \in 1..Len(w) :
            (w[i].dir = w[j].dir /\ w[i].fn = w[j].fn) => i = j}

\* ------------------------------------------------------------------- Init
InitCompare ==
    /\ cmd = "compare" /\ pc = "origin"
    /\ md5flag = FALSE /\ walk = <<>> /\ apos = 1 /\ out = <<>>
    /\ \/ origin \in Listings(MaxLines) /\ remote \in Listings(MaxLines)
       \/ origin \in RawListings(MaxRawLines)
          /\ remote \in RawListings(MaxRawLines)
    /\ pos = 1 /\ columns = <<>>
    /\ row = EmptyDict /\ origin_files = EmptyDict
    /\ remote_files = {} /\ modified_files = {}
    /\ diff = <<>> /\ flags = NoFlags /\ actions = <<>>

InitPipe ==
    /\ cmd = "compare" /\ pc = "origin"
    /\ md5flag = FALSE /\ walk = <<>> /\ apos = 1 /\ out = <<>>
    /\ origin \in PipeListings(MaxPipeLines)
    /\ remote \in PipeListings(MaxPipeLines)
    /\ pos = 1 /\ columns = <<>>
    /\ row = EmptyDict /\ origin_files = EmptyDict
    /\ remote_files = {} /\ modified_files = {}
    /\ diff = <<>> /\ flags = NoFlags /\ actions = <<>>

InitSync ==
    /\ cmd = "sync" /\ pc = "read"
    /\ md5flag = FALSE /\ walk = <<>> /\ apos = 1 /\ out = <<>>
    /\ origin = <<>> /\ remote = <<>> /\ pos = 1 /\ columns = <<>>
    /\ row = EmptyDict /\ origin_files = EmptyDict
    /\ remote_files = {} /\ modified_files = {}
    /\ diff \in BoundedSeq(SyncLines, MaxDiffLines)
    /\ flags \in Flags
    /\ actions = <<>>

InitAnalyze ==
    /\ cmd = "analyze" /\ pc = "header"
    /\ md5flag \in BOOLEAN
    /\ walk \in Walks
    /\ apos = 1 /\ out = <<>>
    /\ origin = <<>> /\ remote = <<>> /\ pos = 1 /\ columns = <<>>
    /\ row = EmptyDict /\ origin_files = EmptyDict
    /\ remote_files = {} /\ modified_files = {}
    /\ diff = <<>> /\ flags = NoFlags /\ actions = <<>>

\* ------------------------------------------------------------ specifications
NextCompare == OriginLine \/ OriginEOF \/ RemoteLine \/ RemoteEOF \/ WriteDiff
NextSync == SyncLine \/ SyncEOF
NextPipe == NextCompare \/ StartSync \/ NextSync
NextAnalyze ==
    AnalyzeHeader \/ AnalyzeFile \/ AnalyzeEOF \/ StartCompare \/ NextCompare

SpecCompare == InitCompare /\ [][NextCompare]_vars
SpecSync == InitSync /\ [][NextSync]_vars
SpecPipe == InitPipe /\ [][NextPipe]_vars
SpecAnalyze == InitAnalyze /\ [][NextAnalyze]_vars

\* ------------------------------------------------- vocabulary of the claims
\* the lines of a text that are not blank
NonBlank(text) == SelectSeq(text, LAMBDA l : Strip(l) # <<>>)

Range(f) == {f[i] : i \in DOMAIN f}

\* a listing made of a header and of lines of the shape the header declares,
\* or the empty file
WellFormed(text) ==
    \/ text = <<>>
    \/ /\ Len(text) >= 1
       /\ \/ text[1] = HeaderF /\ \A i \in 2..Len(text) : text[i] \in PathLines
          \/ text[1] = HeaderMF /\ \A i \in 2..Len(text) : text[i] \in Md5Lines

\* the entry a line of a well-formed listing stands for
Entries == [path : Paths, sum : {None} \cup {Some(s) : s \in Sums}]
EntryOf(line) == CHOOSE e \in Entries : ManifestLine(e.sum, e.path) = line

\* the paths a well-formed listing lists, and whether each is listed once
Keys(text) == {EntryOf(text[i]).path : i \in 2..Len(text)}
ListedOnce(text) ==
    \A i, j \in 2..Len(text) :
        EntryOf(text[i]).path = EntryOf(text[j]).path => i = j

\* the manifest of a well-formed listing, a repeated path keeping the
\* checksum of its last line
LastWins(text) ==
    [p \in Keys(text) |->
        EntryOf(text[CHOOSE i \in 2..Len(text) :
                        /\ EntryOf(text[i]).path = p
                        /\ \A j \in (i + 1)..Len(text) :
                              EntryOf(text[j]).path # p]).sum]

\* the three record sets of two manifests
OnlyIn(A, B) == DOMAIN A \ DOMAIN B
Changed(A, B) == {p \in DOMAIN A \cap DOMAIN B : A[p] # B[p]}

\* the action the decision table gives for one record
Plan(status, p, fl) ==
    LET o == [root |-> "origin", fn |-> p]
        r == [root |-> "remote", fn |-> p]
        up == [op |-> "copy", src |-> o, dst |-> r]
        down == [op |-> "copy", src |-> r, dst |-> o]
    IN CASE status = "O" ->
              IF fl.origin_remove THEN [op |-> "remove", file |-> o] ELSE up
         [] status = "R" ->
              IF fl.remote_copy THEN down ELSE [op |-> "remove", file |-> r]
         [] status = "M" ->
              IF fl.modified_download THEN down ELSE up

\* ------------------------------------------------------------------ claims
\* C1: when each path is listed once per side, the diff compare writes has
\* exactly one O line per path of the origin manifest missing from the remote
\* one, one R line per path of the remote manifest missing from the origin
\* one, one M line per path of both whose checksums differ (an absent
\* checksum being equal only to an absent one), and no other record.
C1_ExactClassification ==
    (/\ cmd = "compare" /\ pc = "done"
     /\ WellFormed(origin) /\ WellFormed(remote)
     /\ ListedOnce(origin) /\ ListedOnce(remote))
    => LET O == LastWins(origin)
           R == LastWins(remote)
           want == {DiffLine("O", p) : p \in OnlyIn(O, R)}
                   \cup {DiffLine("R", p) : p \in OnlyIn(R, O)}
                   \cup {DiffLine("M", p) : p \in Changed(O, R)}
       IN /\ Range(NonBlank(diff)) = want
          /\ Len(NonBlank(diff)) = Cardinality(want)

C1_Witness ==
    /\ cmd = "compare" /\ pc = "done"
    /\ WellFormed(origin) /\ WellFormed(remote)
    /\ ListedOnce(origin) /\ ListedOnce(remote)
    /\ origin # <<>> /\ remote # <<>>
    /\ origin[1] = HeaderMF /\ remote[1] = HeaderMF
    /\ \E p, q, r \in Paths :
          {DiffLine("O", p), DiffLine("R", q), DiffLine("M", r)}
              \subseteq Range(diff)

\* C2: at every step of compare no path is in more than one of the three
\* record sets, whatever the listings, repeated paths included.
C2_PairwiseDisjoint ==
    cmd = "compare"
    => /\ DOMAIN origin_files \cap remote_files = {}
       /\ DOMAIN origin_files \cap modified_files = {}
       /\ remote_files \cap modified_files = {}

\* C3: the record sets compare ends with are those of the two manifests that
\* keep, for each path, only its last line in the listing.
C3_LastWinsBothSides ==
    (/\ cmd = "compare" /\ pc \in {"write", "done"}
     /\ WellFormed(origin) /\ WellFormed(remote))
    => LET O == LastWins(origin)
           R == LastWins(remote)
       IN /\ DOMAIN origin_files = OnlyIn(O, R)
          /\ remote_files = OnlyIn(R, O)
          /\ modified_files = Changed(O, R)

\* C4: on a diff made of record lines only, sync prints one action per line,
\* the i-th for the i-th record, chosen by the decision table from the
\* record's status and the flag of that status.
RecordLines == {DiffLine(s, p) : s \in {"O", "R", "M"}, p \in DiffPaths}
RecordOf(line) ==
    CHOOSE r \in [status : {"O", "R", "M"}, path : DiffPaths] :
        DiffLine(r.status, r.path) = line

C4_DecisionTable ==
    (cmd = "sync" /\ \A i \in 1..Len(diff) : diff[i] \in RecordLines)
    => /\ pc # "failed"
       /\ Len(actions) = Len(NonBlank(SubSeq(diff, 1, pos - 1)))
       /\ \A i \in 1..Len(actions) :
             actions[i] = Plan(RecordOf(diff[i]).status,
                               RecordOf(diff[i]).path, flags)

C4_Witness ==
    /\ cmd = "sync" /\ pc = "done"
    /\ Len(diff) = 3 /\ \A i \in 1..Len(diff) : diff[i] \in RecordLines
    /\ {RecordOf(diff[i]).status : i \in 1..3} = {"O", "R", "M"}
    /\ RecordOf(diff[1]).path # RecordOf(diff[2]).path
    /\ flags.remote_copy /\ ~flags.origin_remove
    /\ Len(actions) = 3

\* C5: under a header of n columns a data line with at least n fields is
\* decoded into n fields, the last column receiving all the rest of the line.
C5_LastColumnTakesRest ==
    (/\ cmd = "compare" /\ pc \in {"origin", "remote"} /\ pos > 1
     /\ columns \in {<<FILENAME>>, <<MD5, FILENAME>>})
    => LET text == IF pc = "origin" THEN origin ELSE remote
           line == Strip(text[pos - 1])
           n == Len(columns)
       IN (line # <<>> /\ Head(line) # "#" /\ Len(Split(line, -1)) >= n)
          => /\ DOMAIN row = Range(columns)
             /\ row[FILENAME] = Split(line, n - 1)[n]

\* C6: a listing without a header is read without failure, each non-blank
\* line giving an entry whose path is the line and whose checksum is absent.
NoHeader(text) == \A i \in 1..Len(text) : text[i] = <<>> \/ Head(text[i]) # "#"

C6_HeaderlessListing ==
    (cmd = "compare" /\ NoHeader(origin) /\ NoHeader(remote))
    => /\ pc # "failed"
       /\ (pc = "remote" /\ pos = 1)
          => origin_files =
                [p \in {Strip(l) : l \in Range(NonBlank(origin))} |-> None]

\* C7: reading back the manifest analyze wrote gives the mapping that was
\* written: every path written, unaltered, with its checksum (absent when
\* checksums are off).
WrittenFiles ==
    {i \in 1..Len(walk) : md5flag => calc_md5(walk[i]) # None}
WrittenManifest ==
    [p \in {JoinPath(walk[i].dir, walk[i].fn) : i \in WrittenFiles} |->
        LET i == CHOOSE j \in WrittenFiles :
                    JoinPath(walk[j].dir, walk[j].fn) = p
        IN IF md5flag THEN walk[i].sum ELSE None]

C7_ManifestRoundTrip ==
    cmd = "compare"
    => /\ pc # "failed"
       /\ (pc = "remote" /\ pos = 1) => origin_files = WrittenManifest

\* C8: with checksums on, the manifest holds, after the header, one line for
\* each file met so far whose checksum succeeded, in the order of the walk,
\* and nothing for a file whose checksum failed; the walk is never aborted
\* and ends only after its last file.
RECURSIVE LinesOf(_)
LinesOf(files) ==
    IF files = <<>> THEN <<>>
    ELSE (IF Head(files).sum = None THEN <<>>
          ELSE <<Head(files).sum[1] \o <<" ">>
                 \o JoinPath(Head(files).dir, Head(files).fn)>>)
         \o LinesOf(Tail(files))

Records ==
    {<<"O", p>> : p \in DOMAIN origin_files}
    \cup {<<"R", p>> : p \in remote_files}
    \cup {<<"M", p>> : p \in modified_files}

C9_DiffRoundTrip ==
    cmd = "sync"
    => /\ pc # "failed"
       /\ pc = "done"
          => /\ Len(actions) = Cardinality(Records)
             /\ \A a \in Range(actions) \cup
                         {Plan(r[1], r[2], flags) : r \in Records} :
                   Cardinality({i \in 1..Len(actions) : actions[i] = a})
                   = Cardinality({r \in Records : Plan(r[1], r[2], flags) = a})

C9_Witness ==
    /\ cmd = "sync" /\ pc = "done"
    /\ DOMAIN origin_files # {} /\ remote_files # {} /\ modified_files # {}
    /\ Len(diff) = Len(actions) + 2

\* C10: every non-blank line sync has read gave one action, unless the run
\* was aborted.
C10_NoSilentDrop ==
    (cmd = "sync" /\ pc # "failed")
    => Len(actions) = Len(NonBlank(SubSeq(diff, 1, pos - 1)))

====
